---- MODULE Spec2Model ----
(***************************************************************************)
(* BlobReader (packages/pds/src/actor-store/blob/reader.ts): the read side *)
(* of the per-actor blob store.  The three tables it queries (blob,        *)
(* record_blob, record) are the state; every public method is an action    *)
(* that evaluates its query on the current tables and records what it      *)
(* returned or threw, together with the calls it made to fetch and to the  *)
(* blobstore.                                                              *)
(*                                                                         *)
(* Strings that the queries order (blobCid, cursor, repoRev, since) are    *)
(* represented by their rank in the column's binary collation: 0 is the    *)
(* empty string, and every non-empty string has a rank >= 1.  Strings that *)
(* are only tested for equality or truthiness (url, takedownRef,           *)
(* recordUri) are TLA+ strings.  An optional value (SQL NULL, a JS         *)
(* undefined) is the empty set, a present value v is {v}.                  *)
(***************************************************************************)
EXTENDS Integers, Sequences, FiniteSets, TLC

VARIABLES
    blob,         \* table blob: rows [cid, size, mimeType, url, takedownRef, softDeleted]
    record_blob,  \* table record_blob: rows [blobCid, recordUri]
    record,       \* table record: rows [uri, repoRev]
    call,         \* the last finished method call: [op, args, result]
    effects,      \* the fetch / blobstore.getStream calls that call made, in order
    scan          \* a caller paging through listBlobs / listMissingBlobs

vars == <<blob, record_blob, record, call, effects, scan>>

----------------------------------------------------------------------------
(* Bounds of the model *)

MaxBlobRows == 2     \* rows of table blob
MaxLinkRows == 3     \* rows of table record_blob
MaxLimit == 4        \* page sizes 1..MaxLimit

(* Universes *)

Cids == 1 .. 3                  \* ranks of the non-empty cid strings
Revs == 1 .. 2                  \* ranks of the non-empty repoRev strings
RecordUris == {"rec1", "rec2"}
Urls == {"", "http://x"}
TakedownRefs == {"", "ref1"}

None == {}
Some(v) == {v}
Opt(S) == {None} \cup {Some(v) : v \in S}
TheValue(o) == CHOOSE v \in o : TRUE

(* JS truthiness of an optional string: undefined, null and "" are falsy *)
Truthy(o) == o # None /\ o # Some("")
(* JS truthiness of an optional ordered string (rank 0 is "") *)
TruthyRank(o) == o # None /\ o # Some(0)

----------------------------------------------------------------------------
(* Values returned and thrown *)

Return(v) == [threw |-> FALSE, value |-> v]
Throw(e) == [threw |-> TRUE, error |-> e]

(* new InvalidRequestError('Blob not found') *)
BlobNotFoundRequestError ==
    [class |-> "InvalidRequestError", message |-> <<"Blob not found">>]
(* new InvalidRequestError(`Failed to fetch blob from url: ${url}`) *)
FetchFailedRequestError(url) ==
    [class |-> "InvalidRequestError",
     message |-> <<"Failed to fetch blob from url: ", url>>]
(* what fetch() rejects with when the request itself fails *)
FetchRejection == [class |-> "TypeError", message |-> <<"fetch failed">>]
(* the blobstore's distinguished not-found error, and any other failure of it *)
BlobNotFoundError == [class |-> "BlobNotFoundError", message |-> <<"blob not found">>]
OtherStoreError == [class |-> "Error", message |-> <<"blobstore failure">>]

(* Outcomes of the two collaborators, chosen by the environment per call *)
FetchOutcomes ==
    {[rejects |-> TRUE, ok |-> FALSE, body |-> FALSE]}
    \cup {[rejects |-> FALSE, ok |-> o, body |-> b] : o \in BOOLEAN, b \in BOOLEAN}
StoreOutcomes == {"stream", "BlobNotFoundError", "otherError"}

----------------------------------------------------------------------------
(* Point lookups on table blob *)

(* notSoftDeletedClause(ref('blob')) *)
notSoftDeletedClause(row) == ~row.softDeleted

(* .executeTakeFirst(): the first row of the result, or undefined *)
executeTakeFirst(rows) ==
    IF rows = {} THEN None ELSE Some(CHOOSE r \in rows : TRUE)

getBlobMetadata_ignoresSoftDelete(cid) ==
    LET found == executeTakeFirst({r \in blob : r.cid = cid})
    IN  IF found = None
        THEN Throw(BlobNotFoundRequestError)
        ELSE Return([size |-> TheValue(found).size,
                     mimeType |-> TheValue(found).mimeType])

getBlobMetadata(cid) ==
    LET found == executeTakeFirst(
                     {r \in blob : r.cid = cid /\ notSoftDeletedClause(r)})
    IN  IF found = None
        THEN Throw(BlobNotFoundRequestError)
        ELSE Return([size |-> TheValue(found).size,
                     mimeType |-> TheValue(found).mimeType])

getBlobMetadataWithUrl(cid) ==
    LET found == executeTakeFirst(
                     {r \in blob : r.cid = cid /\ notSoftDeletedClause(r)})
    IN  IF found = None
        THEN Throw(BlobNotFoundRequestError)
        ELSE Return([size |-> TheValue(found).size,
                     mimeType |-> TheValue(found).mimeType,
                     url |-> TheValue(found).url])

(* streamFromUrl(url), given what fetch(url) does *)
streamFromUrl(url, fetchOutcome) ==
    IF fetchOutcome.rejects
    THEN Throw(FetchRejection)
    ELSE IF ~fetchOutcome.ok \/ ~fetchOutcome.body
         THEN Throw(FetchFailedRequestError(url))
         ELSE Return([source |-> "fetch", url |-> url])

(* blobstore.getStream(cid), given what the blobstore does *)
getStream(cid, storeOutcome) ==
    CASE storeOutcome = "stream" -> Return([source |-> "blobstore", cid |-> cid])
      [] storeOutcome = "BlobNotFoundError" -> Throw(BlobNotFoundError)
      [] OTHER -> Throw(OtherStoreError)

translateStreamError_translatesAll(err) ==
    Throw(BlobNotFoundRequestError)

(* the catch block of getBlob: BlobNotFoundError becomes 'Blob not found',
   everything else is rethrown *)
translateStreamError(err) ==
    IF err.class = "BlobNotFoundError"
    THEN Throw(BlobNotFoundRequestError)
    ELSE Throw(err)

(* getBlob(cid): what it returns or throws, and the collaborator calls it
   made with their outcomes.  In the branch without url the metadata is looked
   up a second time (line 81) before the blobstore is asked. *)
getBlob(cid, fetchOutcome, storeOutcome) ==
    LET metadataWithUrl == getBlobMetadataWithUrl(cid)
    IN  IF metadataWithUrl.threw
        THEN [result |-> metadataWithUrl, effects |-> <<>>]
        ELSE IF Truthy(metadataWithUrl.value.url)
        THEN LET url == TheValue(metadataWithUrl.value.url)
                 blobStream == streamFromUrl(url, fetchOutcome)
             IN  [result |->
                     IF blobStream.threw
                     THEN translateStreamError(blobStream.error)
                     ELSE Return([size |-> metadataWithUrl.value.size,
                                  mimeType |-> metadataWithUrl.value.mimeType,
                                  stream |-> blobStream.value]),
                  effects |-> <<[kind |-> "fetch", url |-> url,
                                 outcome |-> fetchOutcome]>>]
        ELSE LET metadata == getBlobMetadata(cid)
             IN  IF metadata.threw
                 THEN [result |-> metadata, effects |-> <<>>]
                 ELSE LET blobStream == getStream(cid, storeOutcome)
                      IN  [result |->
                              IF blobStream.threw
                              THEN translateStreamError(blobStream.error)
                              ELSE Return([size |-> metadata.value.size,
                                           mimeType |-> metadata.value.mimeType,
                                           stream |-> blobStream.value]),
                           effects |-> <<[kind |-> "getStream", cid |-> cid,
                                          outcome |-> storeOutcome]>>]

getBlobTakedownStatus_skipsSoftDeleted(cid) ==
    LET res == executeTakeFirst(
                   {r \in blob : r.cid = cid /\ notSoftDeletedClause(r)})
    IN  IF res = None
        THEN Return(None)
        ELSE IF Truthy(TheValue(res).takedownRef)
             THEN Return(Some([applied |-> TRUE,
                               ref |-> TheValue(TheValue(res).takedownRef)]))
             ELSE Return(Some([applied |-> FALSE]))

(* getBlobTakedownStatus(cid) *)
getBlobTakedownStatus(cid) ==
    LET res == executeTakeFirst({r \in blob : r.cid = cid})
    IN  IF res = None
        THEN Return(None)
        ELSE IF Truthy(TheValue(res).takedownRef)
             THEN Return(Some([applied |-> TRUE,
                               ref |-> TheValue(TheValue(res).takedownRef)]))
             ELSE Return(Some([applied |-> FALSE]))

----------------------------------------------------------------------------
(* Range queries on table record_blob *)

Min(a, b) == IF a <= b THEN a ELSE b

(* ORDER BY ... ASC over a set of distinct keys *)
RECURSIVE SortAsc(_)
SortAsc(S) ==
    IF S = {}
    THEN <<>>
    ELSE LET m == CHOOSE x \in S : \A y \in S : x <= y
         IN  <<m>> \o SortAsc(S \ {m})

(* LIMIT n *)
Take(s, n) == SubSeq(s, 1, Min(n, Len(s)))

listBlobsRows_inclusiveSince(since, cursor) ==
    LET joined ==
            IF TruthyRank(since)
            THEN {rb \in record_blob :
                     \E r \in record : /\ r.uri = rb.recordUri
                                        /\ r.repoRev >= TheValue(since)}
            ELSE record_blob
    IN  IF TruthyRank(cursor)
        THEN {rb \in joined : rb.blobCid > TheValue(cursor)}
        ELSE joined

(* the record_blob rows listBlobs groups: the inner join on record and the
   repoRev filter only when since is truthy, the cursor filter only when
   cursor is truthy *)
listBlobsRows(since, cursor) ==
    LET joined ==
            IF TruthyRank(since)
            THEN {rb \in record_blob :
                     \E r \in record : /\ r.uri = rb.recordUri
                                        /\ r.repoRev > TheValue(since)}
            ELSE record_blob
    IN  IF TruthyRank(cursor)
        THEN {rb \in joined : rb.blobCid > TheValue(cursor)}
        ELSE joined

listBlobs_limitBeforeCursor(since, cursor, limit) ==
    LET firstRows == Take(SortAsc({rb.blobCid :
                                      rb \in listBlobsRows(since, None)}), limit)
    IN  IF TruthyRank(cursor)
        THEN SelectSeq(firstRows, LAMBDA c : c > TheValue(cursor))
        ELSE firstRows

listBlobs_onlyStoredBlobs(since, cursor, limit) ==
    Take(SortAsc({rb.blobCid : rb \in
                     {x \in listBlobsRows(since, cursor) :
                         \E b \in blob : b.cid = x.blobCid}}), limit)

(* listBlobs({since, cursor, limit}) *)
listBlobs(since, cursor, limit) ==
    Take(SortAsc({rb.blobCid : rb \in listBlobsRows(since, cursor)}), limit)

(* getRecordsForBlob(cid): the result rows as a bag, recordUri -> how often *)
getRecordsForBlob(cid) ==
    LET res == {rb \in record_blob : rb.blobCid = cid}
    IN  [u \in {rb.recordUri : rb \in res} |->
            Cardinality({rb \in res : rb.recordUri = u})]

getBlobsForRecord_noJoin(recordUri) ==
    LET res == {rb \in record_blob : rb.recordUri = recordUri}
    IN  [c \in {rb.blobCid : rb \in res} |->
            Cardinality({rb \in res : rb.blobCid = c})]

(* getBlobsForRecord(recordUri): blob inner join record_blob, the result rows
   as a bag, blob.cid -> how often *)
getBlobsForRecord(recordUri) ==
    LET res == {<<b, rb>> \in blob \X record_blob :
                   /\ rb.blobCid = b.cid
                   /\ rb.recordUri = recordUri}
    IN  [c \in {p[1].cid : p \in res} |->
            Cardinality({p \in res : p[1].cid = c})]

listMissingBlobsRows_inclusiveCursor(cursor) ==
    LET missing == {rb \in record_blob :
                       ~ \E b \in blob : b.cid = rb.blobCid}
    IN  IF TruthyRank(cursor)
        THEN {rb \in missing : rb.blobCid >= TheValue(cursor)}
        ELSE missing

listMissingBlobsRows_skipsSoftDeleted(cursor) ==
    LET missing == {rb \in record_blob :
                       ~ \E b \in blob : /\ b.cid = rb.blobCid
                                          /\ notSoftDeletedClause(b)}
    IN  IF TruthyRank(cursor)
        THEN {rb \in missing : rb.blobCid > TheValue(cursor)}
        ELSE missing

(* the record_blob rows listMissingBlobs groups: WHERE NOT EXISTS (a blob row
   with that cid), and the cursor filter when cursor is truthy *)
listMissingBlobsRows(cursor) ==
    LET missing == {rb \in record_blob :
                       ~ \E b \in blob : b.cid = rb.blobCid}
    IN  IF TruthyRank(cursor)
        THEN {rb \in missing : rb.blobCid > TheValue(cursor)}
        ELSE missing

(* GROUP BY blobCid with SELECT *: the store reports, for each group, the
   recordUri of one of the group's rows; which one is not specified *)
GroupPicks(rows) ==
    {pick \in [{rb.blobCid : rb \in rows} -> {rb.recordUri : rb \in rows}] :
        \A c \in DOMAIN pick : [blobCid |-> c, recordUri |-> pick[c]] \in rows}

(* listMissingBlobs({cursor, limit}), given the store's choice of rows *)
listMissingBlobs(cursor, limit, pick) ==
    LET ids == Take(SortAsc({rb.blobCid : rb \in listMissingBlobsRows(cursor)}),
                    limit)
    IN  [i \in 1 .. Len(ids) |-> [cid |-> ids[i], recordUri |-> pick[ids[i]]]]

----------------------------------------------------------------------------
(* The tables *)

BlobRow(cid, attrs) ==
    [cid |-> cid, size |-> 100 * cid, mimeType |-> Some("image/png"),
     url |-> attrs.url, takedownRef |-> attrs.takedownRef,
     softDeleted |-> attrs.softDeleted]

(* every combination of url, takedownRef and the soft-deleted mark *)
AllAttrs ==
    [url : Opt(Urls), takedownRef : Opt(TakedownRefs), softDeleted : BOOLEAN]
(* locally stored rows, soft-deleted or not *)
LocalAttrs ==
    [url : {None}, takedownRef : {None}, softDeleted : BOOLEAN]

(* blob.cid is the table's primary key *)
BlobTables(attrs) ==
    UNION {{{BlobRow(c, f[c]) : c \in S} : f \in [S -> attrs]} :
              S \in {S \in SUBSET Cids : Cardinality(S) <= MaxBlobRows}}

(* (blobCid, recordUri) is the table's primary key *)
LinkTables ==
    {T \in SUBSET [blobCid : Cids, recordUri : RecordUris] :
        Cardinality(T) <= MaxLinkRows}

(* record.uri is the table's primary key *)
RecordTables ==
    UNION {{{[uri |-> u, repoRev |-> f[u]] : u \in S} : f \in [S -> Revs]} :
              S \in SUBSET RecordUris}

NoCall == [op |-> "none"]
IdleScan == [status |-> "idle"]

Tables == <<blob, record_blob, record>>

----------------------------------------------------------------------------
(* One action per method call *)

(* a request is served against the tables as they are; each behaviour follows
   one caller, which issues a single call or pages through one listing *)
Finish(c, e) ==
    /\ call = NoCall
    /\ scan = IdleScan
    /\ call' = c
    /\ effects' = e
    /\ UNCHANGED <<scan, Tables>>

GetBlobMetadata ==
    \E cid \in Cids :
        Finish([op |-> "getBlobMetadata", cid |-> cid,
                result |-> getBlobMetadata(cid)], <<>>)

GetBlobMetadataWithUrl ==
    \E cid \in Cids :
        Finish([op |-> "getBlobMetadataWithUrl", cid |-> cid,
                result |-> getBlobMetadataWithUrl(cid)], <<>>)

GetBlob ==
    \E cid \in Cids, fetchOutcome \in FetchOutcomes,
       storeOutcome \in StoreOutcomes :
        LET r == getBlob(cid, fetchOutcome, storeOutcome)
        IN  Finish([op |-> "getBlob", cid |-> cid, result |-> r.result],
                   r.effects)

GetBlobTakedownStatus ==
    \E cid \in Cids :
        Finish([op |-> "getBlobTakedownStatus", cid |-> cid,
                result |-> getBlobTakedownStatus(cid)], <<>>)

ListBlobs(sinces, cursors, limits) ==
    \E since \in sinces, cursor \in cursors, limit \in limits :
        Finish([op |-> "listBlobs", since |-> since, cursor |-> cursor,
                limit |-> limit,
                result |-> Return(listBlobs(since, cursor, limit))], <<>>)

ListMissingBlobs(cursors, limits) ==
    \E cursor \in cursors, limit \in limits :
        \E pick \in GroupPicks(listMissingBlobsRows(cursor)) :
            Finish([op |-> "listMissingBlobs", cursor |-> cursor,
                    limit |-> limit,
                    result |-> Return(listMissingBlobs(cursor, limit, pick))],
                   <<>>)

GetRecordsForBlob ==
    \E cid \in Cids :
        Finish([op |-> "getRecordsForBlob", cid |-> cid,
                result |-> Return(getRecordsForBlob(cid))], <<>>)

GetBlobsForRecord ==
    \E recordUri \in RecordUris :
        Finish([op |-> "getBlobsForRecord", recordUri |-> recordUri,
                result |-> Return(getBlobsForRecord(recordUri))], <<>>)

----------------------------------------------------------------------------
(* Blob resolution: getBlobMetadata, getBlob, getBlobTakedownStatus on any
   blob table *)

InitResolve ==
    /\ blob \in BlobTables(AllAttrs)
    /\ record_blob = {}
    /\ record = {}
    /\ call = NoCall
    /\ effects = <<>>
    /\ scan = IdleScan

NextResolve ==
    \/ GetBlobMetadata
    \/ GetBlobMetadataWithUrl
    \/ GetBlob
    \/ GetBlobTakedownStatus

SpecResolve == InitResolve /\ [][NextResolve]_vars

----------------------------------------------------------------------------
(* Listings on any tables: listBlobs with and without since, listMissingBlobs
   and the two association traversals, each with no cursor and a limit that
   no table exceeds *)

InitList ==
    /\ blob \in BlobTables(LocalAttrs)
    /\ record_blob \in LinkTables
    /\ record \in RecordTables
    /\ call = NoCall
    /\ effects = <<>>
    /\ scan = IdleScan

NextList ==
    \/ ListBlobs(Opt({0} \cup Revs), {None}, {MaxLimit})
    \/ ListMissingBlobs({None}, {MaxLimit})
    \/ GetRecordsForBlob
    \/ GetBlobsForRecord

SpecList == InitList /\ [][NextList]_vars

----------------------------------------------------------------------------
(* A caller paging through a listing: the first call carries no cursor, every
   further call carries the last identifier of the page before, and the
   caller stops at the first page shorter than limit *)

(* the identifiers a listing ranges over when no cursor is given *)
EligibleIds(op, since) ==
    IF op = "listBlobs"
    THEN {rb.blobCid : rb \in listBlobsRows(since, None)}
    ELSE {rb.blobCid : rb \in listMissingBlobsRows(None)}

(* the identifiers of one page *)
PageOf(op, since, cursor, limit, pick) ==
    IF op = "listBlobs"
    THEN listBlobs(since, cursor, limit)
    ELSE LET page == listMissingBlobs(cursor, limit, pick)
         IN  [i \in 1 .. Len(page) |-> page[i].cid]

AfterPage(sc, page) ==
    [sc EXCEPT !.pages = Append(@, page),
               !.status = IF Len(page) < sc.limit THEN "done" ELSE "running",
               !.cursor = IF Len(page) < sc.limit
                          THEN @
                          ELSE Some(page[Len(page)])]

Listings(sinces) ==
    {[op |-> "listBlobs", since |-> since] : since \in sinces}
    \cup {[op |-> "listMissingBlobs", since |-> None]}

StartScan(listings, limits) ==
    /\ call = NoCall
    /\ scan = IdleScan
    /\ \E l \in listings, limit \in limits :
          \E pick \in GroupPicks(listMissingBlobsRows(None)) :
              scan' = AfterPage(
                          [status |-> "running", op |-> l.op, since |-> l.since,
                           limit |-> limit, cursor |-> None, pages |-> <<>>,
                           startIds |-> EligibleIds(l.op, l.since)],
                          PageOf(l.op, l.since, None, limit, pick))
    /\ UNCHANGED <<call, effects, Tables>>

NextPage ==
    /\ scan.status = "running"
    /\ \E pick \in GroupPicks(listMissingBlobsRows(scan.cursor)) :
          scan' = AfterPage(scan, PageOf(scan.op, scan.since, scan.cursor,
                                         scan.limit, pick))
    /\ UNCHANGED <<call, effects, Tables>>

(* a writer adds an association row; (blobCid, recordUri) stays unique *)
InsertRecordBlob ==
    /\ Cardinality(record_blob) < MaxLinkRows
    /\ \E cid \in Cids, recordUri \in RecordUris :
          /\ [blobCid |-> cid, recordUri |-> recordUri] \notin record_blob
          /\ record_blob' =
                 record_blob \cup {[blobCid |-> cid, recordUri |-> recordUri]}
    /\ UNCHANGED <<blob, record, call, effects, scan>>

(* every record has a row, at distinct revisions *)
RevisedRecords ==
    {[uri |-> "rec1", repoRev |-> 1], [uri |-> "rec2", repoRev |-> 2]}

InitPage ==
    /\ blob \in BlobTables([url : {None}, takedownRef : {None},
                            softDeleted : {FALSE}])
    /\ record_blob \in LinkTables
    /\ record = RevisedRecords
    /\ call = NoCall
    /\ effects = <<>>
    /\ scan = IdleScan

Cursors == Opt({0} \cup Cids)
Limits == 1 .. MaxLimit

(* paging over tables that do not change *)
NextPaging ==
    \/ ListBlobs(Opt({0} \cup Revs), Cursors, Limits)
    \/ ListMissingBlobs(Cursors, Limits)
    \/ StartScan(Listings(Opt({0} \cup Revs)), Limits)
    \/ NextPage

SpecPaging == InitPage /\ [][NextPaging]_vars

(* paging while association rows are inserted between the page queries *)
NextConcurrent ==
    \/ StartScan(Listings(Opt({0} \cup Revs)), Limits)
    \/ NextPage
    \/ InsertRecordBlob

SpecConcurrent == InitPage /\ [][NextConcurrent]_vars

----------------------------------------------------------------------------
(* The tables of the worked example: blobs A (stored locally), B (at a url)
   and C (soft-deleted); associations A -> rec1, B -> rec2, D -> rec3.
   A, B, C, D are the cids of rank 1, 2, 3, 4. *)

ExampleBlobs ==
    {BlobRow(1, [url |-> None, takedownRef |-> None, softDeleted |-> FALSE]),
     BlobRow(2, [url |-> Some("http://x"), takedownRef |-> None,
                 softDeleted |-> FALSE]),
     BlobRow(3, [url |-> None, takedownRef |-> None, softDeleted |-> TRUE])}

ExampleLinks ==
    {[blobCid |-> 1, recordUri |-> "rec1"],
     [blobCid |-> 2, recordUri |-> "rec2"],
     [blobCid |-> 4, recordUri |-> "rec3"]}

ExampleRecords ==
    {[uri |-> "rec1", repoRev |-> 1], [uri |-> "rec2", repoRev |-> 2],
     [uri |-> "rec3", repoRev |-> 2]}

InitExample ==
    /\ blob = ExampleBlobs
    /\ record_blob = ExampleLinks
    /\ record = ExampleRecords
    /\ call = NoCall
    /\ effects = <<>>
    /\ scan = IdleScan

NextExample ==
    \/ ListBlobs(Opt({0} \cup Revs), Opt(0 .. 4), Limits \cup {10})
    \/ ListMissingBlobs(Opt(0 .. 4), Limits \cup {10})

SpecExample == InitExample /\ [][NextExample]_vars

----------------------------------------------------------------------------
(* Properties *)

Range(s) == {s[i] : i \in 1 .. Len(s)}
StrictlyAscending(s) == \A i \in 1 .. Len(s) - 1 : s[i] < s[i + 1]
RECURSIVE Concat(_)
Concat(ss) == IF ss = <<>> THEN <<>> ELSE Head(ss) \o Concat(Tail(ss))

RowsOf(cid) == {r \in blob : r.cid = cid}
LiveRowsOf(cid) == {r \in blob : r.cid = cid /\ ~r.softDeleted}
FetchFailed(outcome) == outcome.rejects \/ ~outcome.ok \/ ~outcome.body

(* C1: when the blob table has no row for cid, or only a soft-deleted one,
   getBlobMetadata(cid) and getBlob(cid) throw the 'Blob not found' request
   error, and getBlob calls neither fetch nor the blobstore. *)
C1_NotFoundWithoutLiveRow ==
    (call.op \in {"getBlobMetadata", "getBlob"} /\ LiveRowsOf(call.cid) = {})
        => /\ call.result = Throw(BlobNotFoundRequestError)
           /\ effects = <<>>

C1_Witness ==
    /\ call.op = "getBlob"
    /\ \E r \in RowsOf(call.cid) : r.softDeleted /\ Truthy(r.url)
    /\ call.result.threw

(* C2: for a live row whose url is set, getBlob fetches exactly that url and
   never calls the blobstore; and whenever that fetch fails (it rejects, the
   response is not ok, or it has no body) getBlob throws an error of the same
   kind as for a missing row. *)
C2_FetchFailureIsNotFound ==
    (call.op = "getBlob" /\ \E r \in LiveRowsOf(call.cid) : Truthy(r.url))
        => /\ Len(effects) = 1
           /\ effects[1].kind = "fetch"
           /\ \E r \in LiveRowsOf(call.cid) : r.url = Some(effects[1].url)
           /\ FetchFailed(effects[1].outcome)
                 => /\ call.result.threw
                    /\ call.result.error.class = BlobNotFoundRequestError.class

(* C3: for a live row with no url, getBlob asks the blobstore for the stream
   of that cid and does not fetch; a BlobNotFoundError of the blobstore
   becomes the 'Blob not found' request error, any other blobstore error is
   thrown on as it is. *)
C3_LocalBlobStreamsFromStore ==
    (call.op = "getBlob" /\ \E r \in LiveRowsOf(call.cid) : ~Truthy(r.url))
        => /\ Len(effects) = 1
           /\ effects[1].kind = "getStream"
           /\ effects[1].cid = call.cid
           /\ effects[1].outcome = "BlobNotFoundError"
                 => call.result = Throw(BlobNotFoundRequestError)
           /\ effects[1].outcome = "otherError"
                 => call.result = Throw(OtherStoreError)
           /\ effects[1].outcome = "stream"
                 => /\ ~call.result.threw
                    /\ call.result.value.stream.source = "blobstore"

C3_Witness ==
    /\ call.op = "getBlob"
    /\ \E r \in LiveRowsOf(call.cid) : r.url = None
    /\ Len(effects) = 1
    /\ effects[1].outcome = "otherError"
    /\ call.result.threw

(* C4: getBlobTakedownStatus(cid) returns null exactly when the blob table
   has no row for cid, soft-deleted or not; {applied: false} exactly when
   there is a row that carries no takedown reference; {applied: true, ref}
   exactly when there is a row whose takedown reference is ref; and it calls
   neither fetch nor the blobstore.  A reference is a non-empty string. *)
C4_TakedownStatus ==
    call.op = "getBlobTakedownStatus"
        => /\ ~call.result.threw
           /\ effects = <<>>
           /\ call.result.value = None <=> RowsOf(call.cid) = {}
           /\ call.result.value = Some([applied |-> FALSE])
                 <=> \E r \in RowsOf(call.cid) : ~Truthy(r.takedownRef)
           /\ \A ref \in TakedownRefs \ {""} :
                 call.result.value = Some([applied |-> TRUE, ref |-> ref])
                     <=> \E r \in RowsOf(call.cid) : r.takedownRef = Some(ref)

C4_Witness ==
    /\ call.op = "getBlobTakedownStatus"
    /\ \E r \in RowsOf(call.cid) :
          /\ r.softDeleted
          /\ r.takedownRef = Some("ref1")
          /\ Truthy(r.url)
    /\ call.result.value = Some([applied |-> TRUE, ref |-> "ref1"])

(* the identifiers of a listing call's result *)
ResultIds ==
    IF call.op = "listBlobs"
    THEN call.result.value
    ELSE [i \in 1 .. Len(call.result.value) |-> call.result.value[i].cid]

(* the same query with neither cursor nor limit *)
FullScan(op, since) == SortAsc(EligibleIds(op, since))

(* C5: on tables that do not change, every page of listBlobs and of
   listMissingBlobs, for every limit >= 1 and every cursor (absent and ""
   included), is strictly ascending, has at most limit entries and holds only
   identifiers above the cursor; and the pages of a caller that starts without
   a cursor and continues from the last identifier until a page is shorter
   than limit, put end to end, are the unpaginated scan. *)
C5_PagesMakeTheFullScan ==
    /\ call.op \in {"listBlobs", "listMissingBlobs"}
          => /\ StrictlyAscending(ResultIds)
             /\ Len(ResultIds) <= call.limit
             /\ call.cursor # None
                   => \A c \in Range(ResultIds) : c > TheValue(call.cursor)
    /\ scan.status # "idle"
          => \A i \in 1 .. Len(scan.pages) :
                /\ StrictlyAscending(scan.pages[i])
                /\ Len(scan.pages[i]) <= scan.limit
    /\ scan.status = "done"
          => Concat(scan.pages) = FullScan(scan.op, scan.since)

C5_Witness ==
    /\ scan.status = "done"
    /\ scan.op = "listMissingBlobs"
    /\ Len(scan.pages) >= 3
    /\ scan.pages[2] # <<>>

(* C6 as stated: for every since R, the empty string included, listBlobs
   with a limit no smaller than the table returns exactly the distinct
   blobCids with an association row whose record has repoRev > R; without
   since it returns the distinct blobCids of all association rows. *)
C6_SinceAnyString ==
    (call.op = "listBlobs" /\ call.cursor = None
                           /\ call.limit >= Cardinality(record_blob))
        => /\ Len(call.result.value) = Cardinality(Range(call.result.value))
           /\ Range(call.result.value) =
                 IF call.since = None
                 THEN {rb.blobCid : rb \in record_blob}
                 ELSE {rb.blobCid : rb \in
                          {x \in record_blob :
                              \E r \in record :
                                  /\ r.uri = x.recordUri
                                  /\ r.repoRev > TheValue(call.since)}}

(* C6, amended: the same for every non-empty since R; with since omitted or
   empty, listBlobs returns the distinct blobCids of all association rows,
   whatever their record's revision and whether or not the record exists. *)
C6_SinceNonEmpty ==
    (call.op = "listBlobs" /\ call.cursor = None
                           /\ call.limit >= Cardinality(record_blob))
        => /\ Len(call.result.value) = Cardinality(Range(call.result.value))
           /\ Range(call.result.value) =
                 IF call.since = None \/ call.since = Some(0)
                 THEN {rb.blobCid : rb \in record_blob}
                 ELSE {rb.blobCid : rb \in
                          {x \in record_blob :
                              \E r \in record :
                                  /\ r.uri = x.recordUri
                                  /\ r.repoRev > TheValue(call.since)}}

C6_Witness ==
    /\ call.op = "listBlobs"
    /\ call.since = Some(1)
    /\ call.result.value # <<>>
    /\ \E rb \in record_blob :
          /\ rb.blobCid \notin Range(call.result.value)
          /\ [uri |-> rb.recordUri, repoRev |-> 1] \in record

(* C7: listMissingBlobs with no cursor and a limit no smaller than the table
   returns one entry for each distinct blobCid of the association table that
   has no row in the blob table (a soft-deleted row is a row); the recordUri
   of an entry is that of an association row of its blobCid; the result is
   empty when every association row has a blob row. *)
C7_MissingBlobs ==
    (call.op = "listMissingBlobs" /\ call.cursor = None
                                  /\ call.limit >= Cardinality(record_blob))
        => LET res == call.result.value
           IN  /\ {e.cid : e \in Range(res)} =
                     {rb.blobCid : rb \in record_blob} \ {b.cid : b \in blob}
               /\ Len(res) = Cardinality({e.cid : e \in Range(res)})
               /\ \A e \in Range(res) :
                     [blobCid |-> e.cid, recordUri |-> e.recordUri]
                         \in record_blob
               /\ (\A rb \in record_blob : RowsOf(rb.blobCid) # {})
                     => res = <<>>

C7_Witness ==
    /\ call.op = "listMissingBlobs"
    /\ Len(call.result.value) = 1
    /\ \E rb \in record_blob : \E b \in RowsOf(rb.blobCid) : b.softDeleted
    /\ Cardinality({rb \in record_blob :
                       rb.blobCid = call.result.value[1].cid}) = 2

(* C8: while association rows are inserted between the page queries of a
   caller paging through listBlobs or listMissingBlobs, the identifiers
   returned over the whole scan are strictly ascending, so none comes back on
   two pages, and when the scan ends every identifier that was eligible at the
   first page query and still is has been returned. *)
C8_KeysetUnderInserts ==
    scan.status # "idle"
        => /\ StrictlyAscending(Concat(scan.pages))
           /\ scan.status = "done"
                 => \A c \in scan.startIds \cap EligibleIds(scan.op, scan.since) :
                       Cardinality({i \in 1 .. Len(Concat(scan.pages)) :
                                       Concat(scan.pages)[i] = c}) = 1

C8_Witness ==
    /\ scan.status = "done"
    /\ Len(scan.pages) >= 3
    /\ scan.startIds # {}
    /\ \E c \in Range(Concat(scan.pages)) : c \notin scan.startIds
    /\ \E c \in EligibleIds(scan.op, scan.since) :
          c \notin Range(Concat(scan.pages))

(* C9 as stated: on the example tables listBlobs with limit 10 and neither
   since nor cursor returns [A, B], and listMissingBlobs with limit 10
   returns [{cid: D, recordUri: rec3}]. *)
C9_ExampleListsAB ==
    /\ (call.op = "listBlobs" /\ call.since = None /\ call.cursor = None
                               /\ call.limit = 10)
          => call.result.value = <<1, 2>>
    /\ (call.op = "listMissingBlobs" /\ call.cursor = None /\ call.limit = 10)
          => call.result.value = <<[cid |-> 4, recordUri |-> "rec3"]>>

(* C9, amended: on the example tables listBlobs with limit 10 and neither
   since nor cursor returns [A, B, D]: D, which has an association row and no
   blob row, is listed, and C, which has a blob row and no association row, is
   not; listMissingBlobs with limit 10 returns [{cid: D, recordUri: rec3}]. *)
C9_ExampleListsABD ==
    /\ (call.op = "listBlobs" /\ call.since = None /\ call.cursor = None
                               /\ call.limit = 10)
          => call.result.value = <<1, 2, 4>>
    /\ (call.op = "listMissingBlobs" /\ call.cursor = None /\ call.limit = 10)
          => call.result.value = <<[cid |-> 4, recordUri |-> "rec3"]>>

C9_Witness ==
    /\ blob = ExampleBlobs
    /\ record_blob = ExampleLinks
    /\ call.op = "listBlobs"
    /\ call.since = None
    /\ call.cursor = None
    /\ call.limit = 10
    /\ 4 \in Range(call.result.value)

(* C10 as stated: getBlobsForRecord(recordUri) returns the blobCid of every
   association row with that recordUri, each once, whether or not the blob
   table has a row for it. *)
C10_DirectTraversal ==
    call.op = "getBlobsForRecord"
        => /\ DOMAIN call.result.value =
                 {rb.blobCid : rb \in
                     {x \in record_blob : x.recordUri = call.recordUri}}
           /\ \A c \in DOMAIN call.result.value : call.result.value[c] = 1

(* C10, amended: getBlobsForRecord(recordUri) returns, each once, the blobCid
   of every association row with that recordUri for which the blob table has
   a row, soft-deleted or not; an association whose blob has no row
   contributes nothing. *)
C10_TraversalOfStoredBlobs ==
    call.op = "getBlobsForRecord"
        => /\ DOMAIN call.result.value =
                 {rb.blobCid : rb \in
                     {x \in record_blob : /\ x.recordUri = call.recordUri
                                           /\ RowsOf(x.blobCid) # {}}}
           /\ \A c \in DOMAIN call.result.value : call.result.value[c] = 1

C10_Witness ==
    /\ call.op = "getBlobsForRecord"
    /\ DOMAIN call.result.value # {}
    /\ \E c \in DOMAIN call.result.value :
          \E b \in RowsOf(c) : b.softDeleted
    /\ \E rb \in record_blob :
          /\ rb.recordUri = call.recordUri
          /\ RowsOf(rb.blobCid) = {}

====
